---- MODULE Spec2Model ----
(***************************************************************************)
(* Balance-delta reconciliation of parseTransaction.                       *)
(*                                                                         *)
(* One request is followed from processTransaction (src/src/index.ts)      *)
(* through either simulateVersionedTransactionWithBalanceChanges           *)
(* (src/src/versioned.ts) or the legacy simulateTransactionWithBalance-    *)
(* Changes (src/src/index.ts).  An action is the code that runs between    *)
(* two awaits: it starts when the awaited collaborator call returns and    *)
(* ends at the next await, at the return or at a throw.                    *)
(*                                                                         *)
(* Spec        processTransaction with the versioned pipeline and the      *)
(*             first variant of the legacy pipeline (index.ts 1-228)       *)
(* SpecTotals  processTransaction with the second variant of the legacy    *)
(*             pipeline (index.ts 229-502)                                 *)
(***************************************************************************)
EXTENDS Integers, Sequences, FiniteSets, TLC

(***************************************************************************)
(* Bounds of the model.                                                    *)
(***************************************************************************)
\* token amounts of a token record range over 0..MaxAmount
MaxAmount == 1
\* native balances (lamports) of the wallet range over 0..MaxLamports
MaxLamports == 1

(***************************************************************************)
(* Program constants.                                                      *)
(***************************************************************************)
ACCOUNT_SIZE == 165
SOL_MINT == "So11111111111111111111111111111111111111112"
TOKEN_PROGRAM_ID == "TokenkegQfeZyiNwAJbNbGKPFXCWuBvf9Ss623VQ5DA"
SYSTEM_PROGRAM == "11111111111111111111111111111111"

(***************************************************************************)
(* The values the inputs are drawn from.                                   *)
(***************************************************************************)
\* a mint other than the wrapped-native one
USDC_MINT == "EPjFWdd5AufqSSqeM2qN1xzybapC8G4wEGGkZwyTDt1v"
Mints == {SOL_MINT, USDC_MINT}
\* a second mint, for the calls of fetchTokenInfo made outside a request
JUP_MINT == "JUPyiwrYJFskUPiHa7hkeR8VUtAeFoSYbKedZNsDvCN"
\* the wallet of the first signer, and somebody else's wallet
W == "W"
Other == "O"
Owners == {W, Other}
\* addresses a transaction may reference besides the wallet
TokenAddrs == {"A1", "A2"}
\* the key JavaScript yields for uniqueAccounts[i] with i past the end
Undefined == "undefined"

EmptyMap == [x \in {} |-> 0]

NoRec == [mint |-> "none", amount |-> 0, owner |-> "none"]
TokenRecords == [mint : Mints, amount : 0..MaxAmount, owner : Owners]

\* what getAccountInfo answers / what one entry of the simulation response is
Throws == [kind |-> "throw", lamports |-> 0, owner |-> "none", dataLen |-> 0, rec |-> NoRec]
NullAccount == [kind |-> "null", lamports |-> 0, owner |-> "none", dataLen |-> 0, rec |-> NoRec]
PlainAccount(l) == [kind |-> "acct", lamports |-> l, owner |-> SYSTEM_PROGRAM, dataLen |-> 0, rec |-> NoRec]
TokenAccount(l, r) == [kind |-> "acct", lamports |-> l, owner |-> TOKEN_PROGRAM_ID, dataLen |-> ACCOUNT_SIZE, rec |-> r]

\* the rent a token account holds; its value never enters a delta
TokenRent == 1

\* on-chain states of an address before the simulation
ChainStates(addr) ==
    IF addr = W
    THEN {NullAccount} \cup {PlainAccount(l) : l \in 0..MaxLamports}
    ELSE {NullAccount, PlainAccount(TokenRent)} \cup {TokenAccount(TokenRent, r) : r \in TokenRecords}

\* answers of connection.getAccountInfo(addr): a state, or a thrown error
PreAnswers(addr) == {Throws} \cup ChainStates(addr)

\* entries of simulationResult.value.accounts for an address
PostEntries(addr) == ChainStates(addr)

(***************************************************************************)
(* Sequences.                                                              *)
(***************************************************************************)
RECURSIVE Unique(_)
\* [...new Set(keys)]: duplicates dropped, order of first appearance kept
Unique(s) ==
    IF s = <<>> THEN <<>>
    ELSE LET init == Unique(SubSeq(s, 1, Len(s) - 1))
             last == s[Len(s)]
         IN IF \E j \in 1..Len(init) : init[j] = last THEN init ELSE Append(init, last)

RemoveAt(s, j) == SubSeq(s, 1, j - 1) \o SubSeq(s, j + 1, Len(s))

\* Array.prototype.findIndex, 1-based; 0 stands for -1
FindIndex(s, m) ==
    IF \E j \in 1..Len(s) : s[j].mint = m
    THEN CHOOSE j \in 1..Len(s) : s[j].mint = m /\ \A h \in 1..(j - 1) : s[h].mint # m
    ELSE 0

RECURSIVE Pow10(_)
Pow10(d) == IF d = 0 THEN 1 ELSE 10 * Pow10(d - 1)

(***************************************************************************)
(* The decoded transactions a request may carry.                           *)
(*   prefix  the first two characters of the base64 text                   *)
(*   signer  the holder of the first signature (legacy)                    *)
(*   keys    staticAccountKeys (versioned) or the flattened instruction    *)
(*           keys (legacy), before deduplication                           *)
(***************************************************************************)
VersionedKeys == { <<W>>, <<W, "A1">>, <<W, "A1", "A2">>, <<W, "A1", "A1">> }
LegacyKeys == { <<>>, <<"A1">>, <<W, "A1">>, <<"A1", W>>, <<"A1", "A2">>,
                <<"A1", W, "A1">> }
\* leading characters that select no pipeline: other text, the wrong case,
\* a text of one character, the empty text
OtherPrefixes == {"xx", "Aq", "A", ""}
Transactions ==
    {[prefix |-> "AQ", signer |-> W, keys |-> ks] : ks \in VersionedKeys}
    \cup {[prefix |-> "Ag", signer |-> W, keys |-> ks] : ks \in LegacyKeys}
    \cup {[prefix |-> p, signer |-> W, keys |-> <<W>>] : p \in OtherPrefixes}

VARIABLES
    pc,               \* where the request is: which await it is suspended at
    serializedTransaction,  \* the leading characters of the base64 text
    pipeline,         \* "versioned" | "legacy" | "none"
    primaryWallet,    \* targetWallet (versioned) / primaryWallet (legacy)
    uniqueAccounts,   \* uniqueAccountsStr / uniqueAccounts
    i,                \* position of the pre-fetch loop in uniqueAccounts
    preBalances,      \* Map address -> {mint, amount, owner}
    solPreBalances,   \* Map address -> lamports
    postBalances,
    solPostBalances,
    simErr,           \* simulationResult.value.err: "null" or an error
    postSimAccounts,  \* simulationResult.value.accounts: "array", or Undefined when the
                      \* response has none; "none" before the simulation
    walletChanges,    \* legacy: Map owner -> Map mint -> summed change
    k,                \* position of the loop that awaits fetchTokenInfo
    buying,
    selling,
    totalSolChange,   \* versioned: targetWalletSolChange + wrappedSolChange
    tokenInfoCache,   \* Map mint -> token info, shared by all requests
    result,           \* what the request returned
    allMints,         \* second legacy variant: the mints of both snapshots
    tokensBought,     \* second legacy variant
    tokensSold,       \* second legacy variant
    call,             \* per caller of fetchTokenInfo: idle, or suspended at axios.get
    fetched,          \* the calls of fetchTokenInfo that returned, in order of return
    writes,           \* the tokenInfoCache.set calls made, in order
    inFlight,         \* the collaborator calls of the request awaiting their answer
    preFetchErrors    \* the accounts whose pre-state fetch ended in the catch block

\* the locals of the second variant of the legacy pipeline alone
totalsVars == <<allMints, tokensBought, tokensSold>>

\* the locals the second variant of the legacy pipeline does not have
mainVars == <<solPreBalances, solPostBalances, walletChanges, buying, selling,
              totalSolChange, inFlight, preFetchErrors>>

vars == <<pc, serializedTransaction, pipeline, primaryWallet, uniqueAccounts, i, preBalances,
          solPreBalances, postBalances, solPostBalances, simErr, postSimAccounts, walletChanges,
          k, buying, selling, totalSolChange, tokenInfoCache, result,
          allMints, tokensBought, tokensSold, call, fetched, writes, inFlight,
          preFetchErrors>>

\* the calls of fetchTokenInfo made outside a request
callVars == <<call, fetched, writes>>

\* the concurrent callers of fetchTokenInfo
Callers == {"r1", "r2"}
Idle == [at |-> "idle", mintAddress |-> "none", after |-> 0]

NoResult == [returned |-> FALSE]

Init ==
    /\ pc = "start"
    /\ serializedTransaction = "none"
    /\ pipeline = "none"
    /\ primaryWallet = "none"
    /\ uniqueAccounts = <<>>
    /\ i = 1
    /\ preBalances = EmptyMap
    /\ solPreBalances = EmptyMap
    /\ postBalances = EmptyMap
    /\ solPostBalances = EmptyMap
    /\ simErr = "null"
    /\ postSimAccounts = "none"
    /\ walletChanges = EmptyMap
    /\ k = 1
    /\ buying = <<>>
    /\ selling = <<>>
    /\ totalSolChange = 0
    /\ tokenInfoCache = EmptyMap
    /\ result = NoResult
    /\ allMints = <<>>
    /\ tokensBought = <<>>
    /\ tokensSold = <<>>
    /\ call = [c \in Callers |-> Idle]
    /\ fetched = <<>>
    /\ writes = <<>>
    /\ inFlight = {}
    /\ preFetchErrors = {}

(***************************************************************************)
(* Maps.                                                                   *)
(***************************************************************************)
Has(map, key) == key \in DOMAIN map
\* Map.prototype.set
MapSet(map, key, val) == [x \in (DOMAIN map) \cup {key} |-> IF x = key THEN val ELSE map[x]]
\* map.get(key) || 0
GetOr0(map, key) == IF Has(map, key) THEN map[key] ELSE 0

(***************************************************************************)
(* The collaborator calls a request makes.  A call is in flight from the   *)
(* await that issues it to the step that takes its answer.                 *)
(***************************************************************************)
\* connection.getAccountInfo(new PublicKey(address))
GetAccountInfoCall(address) ==
    [call |-> "getAccountInfo", address |-> address, named |-> FALSE, addresses |-> <<>>]

\* connection.simulateTransaction: the versioned pipeline names the accounts
\* whose post-state it wants (simulateConfig.accounts.addresses); the legacy
\* pipeline passes includeAccounts = true and names none
SimulateCall(pl, uniq) ==
    [call |-> "simulateTransaction", address |-> "none",
     named |-> (pl = "versioned"),
     addresses |-> IF pl = "versioned" THEN uniq ELSE <<>>]

\* axios.get of the metadata of a mint
LookupCall(m) == [call |-> "axios.get", address |-> m, named |-> FALSE, addresses |-> <<>>]

\* every pre-fetch issued before the first answer is awaited
PreFetchCalls_AllAtOnce(uniq, j) ==
    IF j = 1 THEN {GetAccountInfoCall(uniq[h]) : h \in 1..Len(uniq)} ELSE {}

\* the call issued when the pre-fetch loop reaches position j
PreFetchCalls(uniq, j) == {GetAccountInfoCall(uniq[j])}

\* the calls in flight once the answer of one has been taken and others issued
AfterAnswer(flight, answered, issued) == (flight \ answered) \cup issued

(***************************************************************************)
(* processTransaction: the dispatch on the first two characters.           *)
(***************************************************************************)
\* the else branch running the legacy pipeline
Route_LegacyByDefault(prefix) == IF prefix = "AQ" THEN "versioned" ELSE "legacy"

\* the pipeline a prefix selects
Route(prefix) ==
    IF prefix = "AQ" THEN "versioned"
    ELSE IF prefix = "Ag" THEN "legacy"
    ELSE "none"

\* the primary wallet the selected pipeline reads off the transaction
WalletOf(tx) == IF Route(tx.prefix) = "versioned" THEN tx.keys[1] ELSE tx.signer

processTransaction ==
    /\ pc = "start"
    /\ \E tx \in Transactions :
        /\ serializedTransaction' = tx.prefix
        /\ IF Route(tx.prefix) = "none"
           THEN /\ pc' = "thrown"
                /\ UNCHANGED <<pipeline, primaryWallet, uniqueAccounts, inFlight>>
           ELSE /\ pipeline' = Route(tx.prefix)
                /\ primaryWallet' = WalletOf(tx)
                /\ uniqueAccounts' = Unique(tx.keys)
                \* an empty account list goes straight to the simulation
                /\ pc' = IF Unique(tx.keys) = <<>> THEN "sim" ELSE "pre"
                /\ inFlight' = IF Unique(tx.keys) = <<>>
                               THEN {SimulateCall(Route(tx.prefix), Unique(tx.keys))}
                               ELSE PreFetchCalls(Unique(tx.keys), 1)
    /\ UNCHANGED <<i, preBalances, solPreBalances, postBalances, solPostBalances,
                   simErr, postSimAccounts, walletChanges, k, buying, selling, totalSolChange,
                   tokenInfoCache, result>>
    /\ UNCHANGED preFetchErrors
    /\ UNCHANGED totalsVars
    /\ UNCHANGED callVars

(***************************************************************************)
(* Pre-simulation snapshot: one getAccountInfo per enumerated account.     *)
(***************************************************************************)
\* the test both pipelines apply before decoding a fetched account
IsTokenAccount(info) ==
    /\ info.kind = "acct"
    /\ info.owner = TOKEN_PROGRAM_ID
    /\ info.dataLen = ACCOUNT_SIZE

\* the accounts whose fetch threw, after the answer for addr
CaughtAfter(caught, addr, info) ==
    IF info.kind = "throw" THEN caught \cup {addr} ELSE caught

\* a failed fetch recorded as a balance of 0
PreSolAfter_ZeroOnError(pl, map, addr, info) ==
    MapSet(map, addr, IF info.kind = "acct" THEN info.lamports ELSE 0)

\* solPreBalances after the answer for addr (a throw skips the whole body)
PreSolAfter(pl, map, addr, info) ==
    IF info.kind = "throw" THEN map
    ELSE IF pl = "versioned"
         THEN MapSet(map, addr, IF info.kind = "acct" THEN info.lamports ELSE 0)
         ELSE IF info.kind = "acct" THEN MapSet(map, addr, info.lamports) ELSE map

\* preBalances after the answer for addr
PreTokAfter(map, addr, info) ==
    IF info.kind # "throw" /\ IsTokenAccount(info) THEN MapSet(map, addr, info.rec) ELSE map

\* the segment from one awaited getAccountInfo to the next await, for an answer
\* out of the set answers
getAccountInfoAnswers(answers) ==
    /\ pc = "pre"
    /\ pipeline \in {"versioned", "legacy"}
    /\ \E info \in answers :
        /\ solPreBalances' = PreSolAfter(pipeline, solPreBalances, uniqueAccounts[i], info)
        /\ preBalances' = PreTokAfter(preBalances, uniqueAccounts[i], info)
        /\ preFetchErrors' = CaughtAfter(preFetchErrors, uniqueAccounts[i], info)
    /\ i' = i + 1
    /\ pc' = IF i = Len(uniqueAccounts) THEN "sim" ELSE "pre"
    /\ inFlight' = AfterAnswer(inFlight, {GetAccountInfoCall(uniqueAccounts[i])},
                               IF i = Len(uniqueAccounts)
                               THEN {SimulateCall(pipeline, uniqueAccounts)}
                               ELSE PreFetchCalls(uniqueAccounts, i + 1))
    /\ UNCHANGED <<serializedTransaction, pipeline, primaryWallet, uniqueAccounts, postBalances,
                   solPostBalances, simErr, postSimAccounts, walletChanges, k, buying, selling,
                   totalSolChange, tokenInfoCache, result>>
    /\ UNCHANGED totalsVars
    /\ UNCHANGED callVars

getAccountInfoReturns == getAccountInfoAnswers(PreAnswers(uniqueAccounts[i]))

(***************************************************************************)
(* fetchTokenInfo (src/src/versioned.ts): static record for the native     *)
(* mint, then the cache, then the lookup.                                  *)
(***************************************************************************)
StaticSolInfo ==
    [logouri |-> "https://raw.githubusercontent.com/solana-labs/token-list/main/assets/mainnet/So11111111111111111111111111111111111111112/logo.png",
     decimals |-> 9, symbol |-> "SOL", name |-> "Wrapped SOL"]

\* response.data of the metadata service for a mint; a numeric field is the
\* set of its value, empty when the field is missing
JupiterData(m) ==
    {[logoURI |-> "https://logo/usdc.png", decimals |-> {6}, symbol |-> "USDC", name |-> "USD Coin"]}

NoData == [logoURI |-> Undefined, decimals |-> {}, symbol |-> Undefined, name |-> Undefined]
\* no lookup is issued (static or cached path)
NoLookup == [ok |-> FALSE, issued |-> FALSE, data |-> NoData]
LookupFails == [ok |-> FALSE, issued |-> TRUE, data |-> NoData]
LookupAnswers(m) == {LookupFails} \cup {[ok |-> TRUE, issued |-> TRUE, data |-> d] : d \in JupiterData(m)}

\* x || '' for a string field
OrEmpty(x) == IF x = Undefined \/ x = "" THEN "" ELSE x
\* x || 0 for a numeric field
OrZero(x) == IF x = {} \/ x = {0} THEN 0 ELSE CHOOSE n \in x : TRUE

\* the record built from a successful response
ParsedInfo(data) ==
    [logouri |-> OrEmpty(data.logoURI),
     decimals |-> OrZero(data.decimals),
     symbol |-> OrEmpty(data.symbol),
     name |-> OrEmpty(data.name)]

\* mintAddress.slice(0, 4) + '...' + mintAddress.slice(-4)
ShortSymbol(m) ==
    IF m = USDC_MINT THEN "EPjF...Dt1v"
    ELSE IF m = JUP_MINT THEN "JUPy...DvCN"
    ELSE IF m = SOL_MINT THEN "So11...1112"
    ELSE "...."

\* every field of the failure record zero-valued
DefaultInfo_AllEmpty(m) == [logouri |-> "", decimals |-> 0, symbol |-> "", name |-> Undefined]

\* the record returned when the lookup throws; it has no name
DefaultInfo(m) == [logouri |-> "", decimals |-> 0, symbol |-> ShortSymbol(m), name |-> Undefined]

\* the static short-circuit left out
NeedsLookup_NoStatic(m, cache) == ~Has(cache, m)

NeedsLookup(m, cache) == m # SOL_MINT /\ ~Has(cache, m)

\* the lookup a call of fetchTokenInfo(m) issues, none on the static and the
\* cached path
LookupCalls(m, cache) == IF NeedsLookup(m, cache) THEN {LookupCall(m)} ELSE {}

\* the collaborator answers a call of fetchTokenInfo(m) can meet
AnswersFor(m, cache) == IF NeedsLookup(m, cache) THEN LookupAnswers(m) ELSE {NoLookup}

\* what fetchTokenInfo(m) returns
fetchTokenInfo(m, cache, ans) ==
    IF m = SOL_MINT THEN StaticSolInfo
    ELSE IF Has(cache, m) THEN cache[m]
    ELSE IF ans.ok THEN ParsedInfo(ans.data)
    ELSE DefaultInfo(m)

\* tokenInfoCache after fetchTokenInfo(m)
CacheAfter(m, cache, ans) ==
    IF NeedsLookup(m, cache) /\ ans.ok THEN MapSet(cache, m, ParsedInfo(ans.data)) ELSE cache

TokenAsset(mint, balanceChange, info) ==
    [mint |-> mint,
     balanceChange |-> balanceChange,
     logouri |-> info.logouri,
     decimals |-> info.decimals,
     \* balanceChange / 10^decimals, kept as numerator and denominator
     amount |-> <<balanceChange, Pow10(info.decimals)>>,
     symbol |-> info.symbol,
     name |-> info.name]

(***************************************************************************)
(* The simulation response.                                                *)
(***************************************************************************)
AllEntries == UNION {ChainStates(a) : a \in {W} \cup TokenAddrs}

\* account arrays in the order of the requested addresses
AccountArrays(uniq) ==
    {f \in [1..Len(uniq) -> AllEntries] : \A j \in 1..Len(uniq) : f[j] \in PostEntries(uniq[j])}

SimErrs == {"null", "InstructionError"}

\* simulationResult.value: err, and accounts (absent when hasAccounts is FALSE)
SimResponses(uniq) ==
    {[err |-> e, hasAccounts |-> TRUE, accounts |-> f] : e \in SimErrs, f \in AccountArrays(uniq)}
    \cup {[err |-> e, hasAccounts |-> FALSE, accounts |-> <<>>] : e \in SimErrs}

(***************************************************************************)
(* Versioned pipeline, after the simulation (src/src/versioned.ts).        *)
(***************************************************************************)
\* postSimAccounts[index]; an index past the end reads undefined
EntryAt(accounts, j) == IF j \in 1..Len(accounts) THEN accounts[j] ELSE NullAccount

\* AccountLayout.decode reads ACCOUNT_SIZE bytes and throws on a shorter buffer
DecodeThrows(entry) == entry.dataLen < ACCOUNT_SIZE

\* the test before postBalances.set in the versioned pipeline
VersionedPostIsToken(pre, addr, entry) ==
    /\ Has(pre, addr)
    /\ entry.kind = "acct"
    /\ entry.owner = TOKEN_PROGRAM_ID
    /\ entry.dataLen > 0
    /\ ~DecodeThrows(entry)

Range(s) == {s[j] : j \in 1..Len(s)}
IndexOf(s, x) == CHOOSE j \in 1..Len(s) : s[j] = x

VersionedPostSol(uniq, accounts) ==
    [a \in Range(uniq) |->
        LET e == EntryAt(accounts, IndexOf(uniq, a))
        IN IF e.kind = "acct" THEN e.lamports ELSE 0]

VersionedPostTok(uniq, pre, accounts) ==
    [a \in {x \in Range(uniq) : VersionedPostIsToken(pre, x, EntryAt(accounts, IndexOf(uniq, x)))} |->
        EntryAt(accounts, IndexOf(uniq, a)).rec]

\* the difference taken without asking whether both balances are known
TargetWalletSolChange_Unguarded(wallet, solPre, solPost) ==
    GetOr0(solPost, wallet) - GetOr0(solPre, wallet)

\* the difference taken the wrong way round
TargetWalletSolChange_Swapped(wallet, solPre, solPost) ==
    IF Has(solPre, wallet) /\ Has(solPost, wallet)
    THEN GetOr0(solPre, wallet) - GetOr0(solPost, wallet)
    ELSE 0

\* targetWalletSolChange
TargetWalletSolChange(wallet, solPre, solPost) ==
    IF Has(solPre, wallet) /\ Has(solPost, wallet)
    THEN GetOr0(solPost, wallet) - GetOr0(solPre, wallet)
    ELSE 0

\* the owner test left out
OwnedByTarget_Anyone(preInfo, wallet) == TRUE

\* the guard of the body of the token loop for one entry of preBalances
OwnedByTarget(preInfo, wallet) == preInfo.owner = wallet

\* the owner read from the post-snapshot record
VersionedEmits_PostOwner(addr, wallet, pre, post) ==
    /\ Has(pre, addr)
    /\ Has(post, addr)
    /\ OwnedByTarget(post[addr], wallet)
    /\ post[addr].amount - pre[addr].amount # 0

\* only gains reach the output
VersionedEmits_GainsOnly(addr, wallet, pre, post) ==
    /\ Has(pre, addr)
    /\ OwnedByTarget(pre[addr], wallet)
    /\ Has(post, addr)
    /\ post[addr].amount - pre[addr].amount > 0

\* the token loop reaches fetchTokenInfo for this address
VersionedEmits(addr, wallet, pre, post) ==
    /\ Has(pre, addr)
    /\ OwnedByTarget(pre[addr], wallet)
    /\ Has(post, addr)
    /\ post[addr].amount - pre[addr].amount # 0

\* first position >= from whose account makes the loop await fetchTokenInfo
VersionedNextK(from, uniq, wallet, pre, post) ==
    LET hits == {j \in from..Len(uniq) : VersionedEmits(uniq[j], wallet, pre, post)}
    IN IF hits = {} THEN Len(uniq) + 1
       ELSE CHOOSE j \in hits : \A h \in hits : j <= h

\* the wrapped-native entries taken out of the lists
WrappedSolChange(buy, sell) ==
    (IF FindIndex(buy, SOL_MINT) # 0 THEN buy[FindIndex(buy, SOL_MINT)].balanceChange ELSE 0)
    + (IF FindIndex(sell, SOL_MINT) # 0 THEN sell[FindIndex(sell, SOL_MINT)].balanceChange ELSE 0)

\* list.splice(index, 1) when findIndex found an entry
SpliceSol(list) ==
    IF FindIndex(list, SOL_MINT) # 0 THEN RemoveAt(list, FindIndex(list, SOL_MINT)) ELSE list

\* the lists dropped when the simulation reports an error
VersionedResult_EmptyOnError(wallet, buy, sell, err) ==
    [returned |-> TRUE, wallet |-> wallet,
     buying |-> IF err = "null" THEN buy ELSE <<>>,
     selling |-> IF err = "null" THEN sell ELSE <<>>,
     solChange |-> {0}, success |-> (err = "null")]

VersionedResult(wallet, buy, sell, err) ==
    [returned |-> TRUE, wallet |-> wallet, buying |-> buy, selling |-> sell,
     solChange |-> {0}, success |-> (err = "null")]

\* from the end of the token loop to the await of fetchTokenInfo(SOL_MINT),
\* or to the return when the total is zero
VersionedAfterLoop(buy, sell, err) ==
    LET total == TargetWalletSolChange(primaryWallet, solPreBalances, solPostBalances')
                 + WrappedSolChange(buy, sell)
    IN /\ totalSolChange' = total
       /\ buying' = SpliceSol(buy)
       /\ selling' = SpliceSol(sell)
       /\ IF total # 0
          THEN pc' = "sol" /\ result' = result
          ELSE /\ pc' = "done"
               /\ result' = VersionedResult(primaryWallet, SpliceSol(buy), SpliceSol(sell), err)
       /\ inFlight' = AfterAnswer(inFlight, inFlight,
                                  IF total # 0 THEN LookupCalls(SOL_MINT, tokenInfoCache') ELSE {})

\* the segment from the awaited simulation to the next await, for a response
\* out of the set responses
simulateAnswersVersioned(responses) ==
    /\ pc = "sim"
    /\ pipeline = "versioned"
    /\ \E resp \in responses :
        IF ~resp.hasAccounts
        THEN /\ pc' = "thrown"
             /\ simErr' = resp.err /\ postSimAccounts' = Undefined
             /\ inFlight' = AfterAnswer(inFlight, {SimulateCall(pipeline, uniqueAccounts)}, {})
             /\ UNCHANGED <<postBalances, solPostBalances, k, buying, selling,
                            totalSolChange, result>>
        ELSE /\ simErr' = resp.err /\ postSimAccounts' = "array"
             /\ solPostBalances' = VersionedPostSol(uniqueAccounts, resp.accounts)
             /\ postBalances' = VersionedPostTok(uniqueAccounts, preBalances, resp.accounts)
             /\ k' = VersionedNextK(1, uniqueAccounts, primaryWallet, preBalances, postBalances')
             /\ IF k' <= Len(uniqueAccounts)
                THEN /\ pc' = "tok"
                     /\ inFlight' = AfterAnswer(inFlight, {SimulateCall(pipeline, uniqueAccounts)},
                                                LookupCalls(preBalances[uniqueAccounts[k']].mint,
                                                            tokenInfoCache))
                     /\ UNCHANGED <<buying, selling, totalSolChange, result>>
                ELSE VersionedAfterLoop(buying, selling, resp.err)
    /\ UNCHANGED <<serializedTransaction, pipeline, primaryWallet, uniqueAccounts, i, preBalances,
                   solPreBalances, walletChanges, tokenInfoCache>>
    /\ UNCHANGED preFetchErrors
    /\ UNCHANGED totalsVars
    /\ UNCHANGED callVars

simulateReturnsVersioned == simulateAnswersVersioned(SimResponses(uniqueAccounts))

\* Math.abs
Abs(n) == IF n < 0 THEN -n ELSE n

\* the list an asset with this change is pushed to
\* the test of the direction turned round
PushBuying_Losses(list, asset) == IF asset.balanceChange < 0 THEN Append(list, asset) ELSE list
PushBuying(list, asset) == IF asset.balanceChange > 0 THEN Append(list, asset) ELSE list
\* a disposal stored with its sign dropped
PushSelling_Unsigned(list, asset) ==
    IF asset.balanceChange > 0 THEN list
    ELSE Append(list, [asset EXCEPT !.balanceChange = Abs(asset.balanceChange)])
PushSelling(list, asset) == IF asset.balanceChange > 0 THEN list ELSE Append(list, asset)

versionedTokenInfoReturns ==
    /\ pc = "tok"
    /\ pipeline = "versioned"
    /\ LET addr == uniqueAccounts[k]
           preInfo == preBalances[addr]
           balanceChange == postBalances[addr].amount - preInfo.amount
       IN \E ans \in AnswersFor(preInfo.mint, tokenInfoCache) :
            LET asset == TokenAsset(preInfo.mint, balanceChange,
                                    fetchTokenInfo(preInfo.mint, tokenInfoCache, ans))
                buy == PushBuying(buying, asset)
                sell == PushSelling(selling, asset)
            IN /\ tokenInfoCache' = CacheAfter(preInfo.mint, tokenInfoCache, ans)
               /\ k' = VersionedNextK(k + 1, uniqueAccounts, primaryWallet, preBalances, postBalances)
               /\ solPostBalances' = solPostBalances
               /\ IF k' <= Len(uniqueAccounts)
                  THEN /\ pc' = "tok"
                       /\ buying' = buy
                       /\ selling' = sell
                       /\ inFlight' = AfterAnswer(inFlight, {LookupCall(preInfo.mint)},
                                                  LookupCalls(preBalances[uniqueAccounts[k']].mint,
                                                              tokenInfoCache'))
                       /\ UNCHANGED <<totalSolChange, result>>
                  ELSE VersionedAfterLoop(buy, sell, simErr)
    /\ UNCHANGED <<serializedTransaction, pipeline, primaryWallet, uniqueAccounts, i, preBalances,
                   solPreBalances, postBalances, simErr, postSimAccounts, walletChanges>>
    /\ UNCHANGED preFetchErrors
    /\ UNCHANGED totalsVars
    /\ UNCHANGED callVars

\* the native entry pushed after fetchTokenInfo(SOL_MINT)
SolAsset(total, info) ==
    LET solAsset == TokenAsset(SOL_MINT, total, info)
    IN IF total > 0 THEN solAsset
       ELSE [solAsset EXCEPT !.balanceChange = (IF total < 0 THEN -total ELSE total) * (-1)]

solTokenInfoReturns ==
    /\ pc = "sol"
    /\ pipeline = "versioned"
    /\ \E ans \in AnswersFor(SOL_MINT, tokenInfoCache) :
        LET solAsset == SolAsset(totalSolChange, fetchTokenInfo(SOL_MINT, tokenInfoCache, ans))
            buy == IF totalSolChange > 0 THEN Append(buying, solAsset) ELSE buying
            sell == IF totalSolChange < 0 THEN Append(selling, solAsset) ELSE selling
        IN /\ tokenInfoCache' = CacheAfter(SOL_MINT, tokenInfoCache, ans)
           /\ buying' = buy
           /\ selling' = sell
           /\ result' = VersionedResult(primaryWallet, buy, sell, simErr)
    /\ pc' = "done"
    /\ inFlight' = AfterAnswer(inFlight, {LookupCall(SOL_MINT)}, {})
    /\ UNCHANGED <<serializedTransaction, pipeline, primaryWallet, uniqueAccounts, i, preBalances,
                   solPreBalances, postBalances, solPostBalances, simErr, postSimAccounts,
                   walletChanges, k, totalSolChange>>
    /\ UNCHANGED preFetchErrors
    /\ UNCHANGED totalsVars
    /\ UNCHANGED callVars

(***************************************************************************)
(* Legacy pipeline, after the simulation (src/src/index.ts).               *)
(***************************************************************************)
\* uniqueAccounts[i] for a response index; past the end it is undefined
LegacyKey(uniq, j) == IF j \in 1..Len(uniq) THEN uniq[j] ELSE Undefined

\* the test before postBalances.set in the legacy pipeline
LegacyPostIsToken(entry) ==
    /\ entry.kind = "acct"
    /\ entry.owner = TOKEN_PROGRAM_ID
    /\ entry.dataLen = ACCOUNT_SIZE

RECURSIVE LegacyPostSol(_, _, _)
\* postSolBalances after the first j entries of the response
LegacyPostSol(uniq, accounts, j) ==
    IF j = 0 THEN EmptyMap
    ELSE LET map == LegacyPostSol(uniq, accounts, j - 1)
         IN IF accounts[j].kind # "acct" THEN map
            ELSE MapSet(map, LegacyKey(uniq, j), accounts[j].lamports)

RECURSIVE LegacyPostTok(_, _, _)
\* postBalances after the first j entries of the response
LegacyPostTok(uniq, accounts, j) ==
    IF j = 0 THEN EmptyMap
    ELSE LET map == LegacyPostTok(uniq, accounts, j - 1)
         IN IF LegacyPostIsToken(accounts[j])
            THEN MapSet(map, LegacyKey(uniq, j), accounts[j].rec)
            ELSE map

\* solChange of the primary wallet; the code computes it and never emits it
LegacySolChange(wallet, solPre, solPost) == GetOr0(solPost, wallet) - GetOr0(solPre, wallet)

\* walletTokenChanges.set(mint, (walletTokenChanges.get(mint) || 0) + balanceChange)
AddChange(changes, mint, balanceChange) ==
    IF \E j \in 1..Len(changes) : changes[j].mint = mint
    THEN LET j == CHOOSE h \in 1..Len(changes) : changes[h].mint = mint
         IN [changes EXCEPT ![j].change = @ + balanceChange]
    ELSE Append(changes, [mint |-> mint, change |-> balanceChange])

RECURSIVE LegacyWalletChanges(_, _, _, _)
\* walletChanges after the first j accounts: owner -> the (mint, change) pairs in
\* the order the mints were first met
LegacyWalletChanges(uniq, pre, post, j) ==
    IF j = 0 THEN EmptyMap
    ELSE LET map == LegacyWalletChanges(uniq, pre, post, j - 1)
             addr == uniq[j]
         IN IF Has(pre, addr) /\ Has(post, addr) /\ post[addr].amount - pre[addr].amount # 0
            THEN MapSet(map, pre[addr].owner,
                        AddChange(IF Has(map, pre[addr].owner) THEN map[pre[addr].owner] ELSE <<>>,
                                  pre[addr].mint,
                                  post[addr].amount - pre[addr].amount))
            ELSE map

LegacyResult(wallet, buy, sell, err) ==
    [returned |-> TRUE, wallet |-> wallet, buying |-> buy, selling |-> sell,
     solChange |-> {}, success |-> (err = "null")]

\* the result returned when the response has no account array
LegacyNoAccounts(wallet) ==
    [returned |-> TRUE, wallet |-> wallet, buying |-> <<>>, selling |-> <<>>,
     solChange |-> {0}, success |-> FALSE]

simulateAnswersLegacy(responses) ==
    /\ pc = "sim"
    /\ pipeline = "legacy"
    /\ \E resp \in responses :
        IF ~resp.hasAccounts
        THEN /\ pc' = "done"
             /\ inFlight' = AfterAnswer(inFlight, {SimulateCall(pipeline, uniqueAccounts)}, {})
             /\ result' = LegacyNoAccounts(primaryWallet)
             /\ simErr' = resp.err /\ postSimAccounts' = Undefined
             /\ UNCHANGED <<postBalances, solPostBalances, walletChanges>>
        ELSE /\ simErr' = resp.err /\ postSimAccounts' = "array"
             /\ solPostBalances' = LegacyPostSol(uniqueAccounts, resp.accounts, Len(resp.accounts))
             /\ postBalances' = LegacyPostTok(uniqueAccounts, resp.accounts, Len(resp.accounts))
             /\ walletChanges' = LegacyWalletChanges(uniqueAccounts, preBalances, postBalances',
                                                     Len(uniqueAccounts))
             /\ IF Has(walletChanges', primaryWallet)
                THEN /\ pc' = "tok" /\ result' = result
                     /\ inFlight' = AfterAnswer(inFlight, {SimulateCall(pipeline, uniqueAccounts)},
                                                LookupCalls(walletChanges'[primaryWallet][1].mint,
                                                            tokenInfoCache))
                ELSE /\ pc' = "done"
                     /\ inFlight' = AfterAnswer(inFlight, {SimulateCall(pipeline, uniqueAccounts)}, {})
                     /\ result' = LegacyResult(primaryWallet, buying, selling, resp.err)
    /\ UNCHANGED <<serializedTransaction, pipeline, primaryWallet, uniqueAccounts, i, preBalances,
                   solPreBalances, k, buying, selling, totalSolChange, tokenInfoCache>>
    /\ UNCHANGED preFetchErrors
    /\ UNCHANGED totalsVars
    /\ UNCHANGED callVars

simulateReturnsLegacy == simulateAnswersLegacy(SimResponses(uniqueAccounts))

legacyTokenInfoReturns ==
    /\ pc = "tok"
    /\ pipeline = "legacy"
    /\ LET entry == walletChanges[primaryWallet][k]
       IN \E ans \in AnswersFor(entry.mint, tokenInfoCache) :
            LET asset == TokenAsset(entry.mint, entry.change,
                                    fetchTokenInfo(entry.mint, tokenInfoCache, ans))
                buy == PushBuying(buying, asset)
                sell == PushSelling(selling, asset)
            IN /\ tokenInfoCache' = CacheAfter(entry.mint, tokenInfoCache, ans)
               /\ buying' = buy
               /\ selling' = sell
               /\ k' = k + 1
               /\ IF k < Len(walletChanges[primaryWallet])
                  THEN /\ pc' = "tok" /\ result' = result
                       /\ inFlight' = AfterAnswer(inFlight, {LookupCall(entry.mint)},
                                                  LookupCalls(walletChanges[primaryWallet][k + 1].mint,
                                                              tokenInfoCache'))
                  ELSE /\ pc' = "done"
                       /\ inFlight' = AfterAnswer(inFlight, {LookupCall(entry.mint)}, {})
                       /\ result' = LegacyResult(primaryWallet, buy, sell, simErr)
    /\ UNCHANGED <<serializedTransaction, pipeline, primaryWallet, uniqueAccounts, i, preBalances,
                   solPreBalances, postBalances, solPostBalances, simErr, postSimAccounts,
                   walletChanges, totalSolChange>>
    /\ UNCHANGED preFetchErrors
    /\ UNCHANGED totalsVars
    /\ UNCHANGED callVars

Next ==
    \/ processTransaction
    \/ getAccountInfoReturns
    \/ simulateReturnsVersioned
    \/ versionedTokenInfoReturns
    \/ solTokenInfoReturns
    \/ simulateReturnsLegacy
    \/ legacyTokenInfoReturns

Spec == Init /\ [][Next]_vars

(***************************************************************************)
(* The same pipelines against a collaborator that is held to nothing: an   *)
(* account owned by the token program whose data is shorter or longer than *)
(* ACCOUNT_SIZE, an account of that length owned by another program, and a *)
(* response with one entry less or one entry more than was enumerated.     *)
(***************************************************************************)
\* token-program data too short to decode
ShortTokenAccount ==
    [kind |-> "acct", lamports |-> TokenRent, owner |-> TOKEN_PROGRAM_ID,
     dataLen |-> ACCOUNT_SIZE - 1, rec |-> NoRec]

\* token-program data with bytes after the account layout; decode reads r
LongTokenAccount(r) ==
    [kind |-> "acct", lamports |-> TokenRent, owner |-> TOKEN_PROGRAM_ID,
     dataLen |-> ACCOUNT_SIZE + 1, rec |-> r]

\* data of the right length under another owner
ForeignAccount ==
    [kind |-> "acct", lamports |-> TokenRent, owner |-> SYSTEM_PROGRAM,
     dataLen |-> ACCOUNT_SIZE, rec |-> NoRec]

LongRecords == {[mint |-> USDC_MINT, amount |-> a, owner |-> W] : a \in 0..MaxAmount}

OddStates(addr) ==
    IF addr = W THEN {}
    ELSE {ShortTokenAccount, ForeignAccount} \cup {LongTokenAccount(r) : r \in LongRecords}

WidePreAnswers(addr) == PreAnswers(addr) \cup OddStates(addr)
WidePostEntries(addr) == PostEntries(addr) \cup OddStates(addr)

\* an entry the response carries beyond the enumerated accounts
SurplusEntries ==
    {PlainAccount(TokenRent),
     TokenAccount(TokenRent, [mint |-> USDC_MINT, amount |-> MaxAmount, owner |-> W])}

RECURSIVE WideArraysOf(_, _)
\* the arrays of entries for the first n enumerated accounts
WideArraysOf(uniq, n) ==
    IF n = 0 THEN {<<>>}
    ELSE {Append(f, e) : f \in WideArraysOf(uniq, n - 1), e \in WidePostEntries(uniq[n])}

\* account arrays of the enumerated length, one shorter and one longer
WideAccountArrays(uniq) ==
    LET n == Len(uniq)
        full == WideArraysOf(uniq, n)
    IN full
       \cup (IF n > 0 THEN WideArraysOf(uniq, n - 1) ELSE {})
       \cup {Append(f, e) : f \in full, e \in SurplusEntries}

WideSimResponses(uniq) ==
    {[err |-> e, hasAccounts |-> TRUE, accounts |-> f] : e \in SimErrs, f \in WideAccountArrays(uniq)}
    \cup {[err |-> e, hasAccounts |-> FALSE, accounts |-> <<>>] : e \in SimErrs}

getAccountInfoReturnsWide == getAccountInfoAnswers(WidePreAnswers(uniqueAccounts[i]))
simulateReturnsVersionedWide == simulateAnswersVersioned(WideSimResponses(uniqueAccounts))
simulateReturnsLegacyWide == simulateAnswersLegacy(WideSimResponses(uniqueAccounts))

NextWide ==
    \/ processTransaction
    \/ getAccountInfoReturnsWide
    \/ simulateReturnsVersionedWide
    \/ versionedTokenInfoReturns
    \/ solTokenInfoReturns
    \/ simulateReturnsLegacyWide
    \/ legacyTokenInfoReturns

SpecWide == Init /\ [][NextWide]_vars

(***************************************************************************)
(* The second variant of the legacy pipeline (src/src/index.ts, from line  *)
(* 229): balances are keyed by `${mint}:${address}`, the native balance by *)
(* `SOL:${wallet}`, and changes are differences of per-mint totals.        *)
(***************************************************************************)
LAMPORTS_PER_SOL == 1000000000

\* the key `SOL:${firstSignerWallet}`
SolKey(wallet) == <<"SOL", wallet>>
\* the key `${mint}:${accountAddress}`
TokenKey(mint, addr) == <<mint, addr>>
\* key.startsWith('SOL:')
IsSolKey(key) == key[1] = "SOL"

\* answers of connection.getBalance(wallet)
BalanceAnswers ==
    {[ok |-> FALSE, lamports |-> 0]} \cup {[ok |-> TRUE, lamports |-> l] : l \in 0..MaxLamports}

\* the transactions whose prefix does not select the versioned pipeline
TotalsTransactions == {tx \in Transactions : Route(tx.prefix) # "versioned"}

processTransactionTotals ==
    /\ pc = "start"
    /\ \E tx \in TotalsTransactions :
        /\ serializedTransaction' = tx.prefix
        /\ IF Route(tx.prefix) = "none"
           THEN /\ pc' = "thrown"
                /\ UNCHANGED <<pipeline, primaryWallet, uniqueAccounts>>
           ELSE /\ pipeline' = "totals"
                /\ primaryWallet' = tx.signer
                /\ uniqueAccounts' = Unique(tx.keys)
                /\ pc' = "bal"
    /\ UNCHANGED <<i, preBalances, postBalances, simErr, postSimAccounts, k, tokenInfoCache, result>>
    /\ UNCHANGED mainVars
    /\ UNCHANGED totalsVars
    /\ UNCHANGED callVars

getBalanceReturns ==
    /\ pc = "bal"
    /\ \E bal \in BalanceAnswers :
        preBalances' =
            IF bal.ok
            THEN MapSet(preBalances, SolKey(primaryWallet),
                        [mint |-> SOL_MINT, amount |-> bal.lamports, owner |-> primaryWallet])
            ELSE preBalances
    /\ pc' = IF uniqueAccounts = <<>> THEN "sim" ELSE "pre"
    /\ UNCHANGED <<serializedTransaction, pipeline, primaryWallet, uniqueAccounts, i, postBalances, simErr, postSimAccounts, k,
                   tokenInfoCache, result>>
    /\ UNCHANGED mainVars
    /\ UNCHANGED totalsVars
    /\ UNCHANGED callVars

\* the record stored for a token account of the first signer
TrackedRecord(rec, addr) ==
    [mint |-> rec.mint, amount |-> rec.amount, owner |-> rec.owner, tokenAccount |-> addr]

\* preBalances after the answer for addr: only accounts of the first signer
TotalsPreAfter(map, addr, info, wallet) ==
    IF info.kind # "throw" /\ IsTokenAccount(info) /\ info.rec.owner = wallet
    THEN MapSet(map, TokenKey(info.rec.mint, addr), TrackedRecord(info.rec, addr))
    ELSE map

getAccountInfoReturnsTotals ==
    /\ pc = "pre"
    /\ pipeline = "totals"
    /\ \E info \in PreAnswers(uniqueAccounts[i]) :
        preBalances' = TotalsPreAfter(preBalances, uniqueAccounts[i], info, primaryWallet)
    /\ i' = i + 1
    /\ pc' = IF i = Len(uniqueAccounts) THEN "sim" ELSE "pre"
    /\ UNCHANGED <<serializedTransaction, pipeline, primaryWallet, uniqueAccounts, postBalances, simErr, postSimAccounts, k,
                   tokenInfoCache, result>>
    /\ UNCHANGED mainVars
    /\ UNCHANGED totalsVars
    /\ UNCHANGED callVars

\* postBalances after the signer's entry, which the code reads at index 0
TotalsPostSol(accounts, wallet) ==
    IF Len(accounts) >= 1 /\ accounts[1].kind = "acct"
    THEN MapSet(EmptyMap, SolKey(wallet),
                [mint |-> SOL_MINT, amount |-> accounts[1].lamports, owner |-> wallet])
    ELSE EmptyMap

RECURSIVE TotalsPostTok(_, _, _, _)
\* postBalances after the first j entries of the response
TotalsPostTok(uniq, accounts, wallet, j) ==
    IF j = 0 THEN TotalsPostSol(accounts, wallet)
    ELSE LET map == TotalsPostTok(uniq, accounts, wallet, j - 1)
             e == accounts[j]
         IN IF LegacyPostIsToken(e) /\ e.rec.owner = wallet
            THEN MapSet(map, TokenKey(e.rec.mint, LegacyKey(uniq, j)),
                        TrackedRecord(e.rec, LegacyKey(uniq, j)))
            ELSE map

\* preBalances.get(`SOL:${wallet}`)?.amount || 0
SolAmount(map, wallet) == IF Has(map, SolKey(wallet)) THEN map[SolKey(wallet)].amount ELSE 0

RECURSIVE SumAmounts(_, _)
SumAmounts(map, keys) ==
    IF keys = {} THEN 0
    ELSE LET key == CHOOSE x \in keys : TRUE
         IN map[key].amount + SumAmounts(map, keys \ {key})

\* preMintTotals.get(mint) || 0, postMintTotals.get(mint) || 0
MintTotalOf(map, mint) ==
    SumAmounts(map, {key \in DOMAIN map : ~IsSolKey(key) /\ map[key].mint = mint})

RECURSIVE PreMintKeys(_, _, _)
\* the mints of preBalances in insertion order: one key per fetched address
PreMintKeys(uniq, pre, j) ==
    IF j = 0 THEN <<>>
    ELSE LET keys == {key \in DOMAIN pre : ~IsSolKey(key) /\ key[2] = uniq[j]}
         IN IF keys = {} THEN PreMintKeys(uniq, pre, j - 1)
            ELSE Append(PreMintKeys(uniq, pre, j - 1), (CHOOSE key \in keys : TRUE)[1])

RECURSIVE PostMintKeys(_, _, _)
\* the mints of postBalances in insertion order
PostMintKeys(accounts, wallet, j) ==
    IF j = 0 THEN <<>>
    ELSE IF LegacyPostIsToken(accounts[j]) /\ accounts[j].rec.owner = wallet
         THEN Append(PostMintKeys(accounts, wallet, j - 1), accounts[j].rec.mint)
         ELSE PostMintKeys(accounts, wallet, j - 1)

\* new Set([...preMintTotals.keys(), ...postMintTotals.keys()])
AllMints(uniq, pre, accounts, wallet) ==
    Unique(PreMintKeys(uniq, pre, Len(uniq)) \o PostMintKeys(accounts, wallet, Len(accounts)))

\* postTotal - preTotal
Difference(mint, pre, post) == MintTotalOf(post, mint) - MintTotalOf(pre, mint)

\* first position >= from of allMints whose difference is not zero
TotalsNextK(from, mints, pre, post) ==
    LET hits == {j \in from..Len(mints) : Difference(mints[j], pre, post) # 0}
    IN IF hits = {} THEN Len(mints) + 1
       ELSE CHOOSE j \in hits : \A h \in hits : j <= h


\* the entry pushed for a mint: the sold amount is stored as a magnitude
TotalsEntry(mint, difference, symbol, denominator, info) ==
    [mint |-> mint,
     symbol |-> symbol,
     amount |-> <<Abs(difference), denominator>>,
     rawAmount |-> Abs(difference),
     decimals |-> info.decimals,
     logouri |-> info.logouri]

TotalsResult(wallet, sold, bought, err) ==
    [returned |-> TRUE, wallet |-> wallet, tokensSold |-> sold, tokensBought |-> bought,
     success |-> (err = "null")]

\* the result returned when the response has no account array
TotalsNoAccounts(err) == [returned |-> TRUE, success |-> (err = "null")]

\* the loop over allMints up to its next await, or to the return
TotalsLoop(from, mints, bought, sold, err) ==
    /\ k' = TotalsNextK(from, mints, preBalances, postBalances')
    /\ tokensBought' = bought
    /\ tokensSold' = sold
    /\ IF k' <= Len(mints)
       THEN pc' = "tok" /\ result' = result
       ELSE pc' = "done" /\ result' = TotalsResult(primaryWallet, sold, bought, err)

simulateReturnsTotals ==
    /\ pc = "sim"
    /\ pipeline = "totals"
    /\ \E resp \in SimResponses(uniqueAccounts) :
        /\ simErr' = resp.err
        /\ postSimAccounts' = IF resp.hasAccounts THEN "array" ELSE Undefined
        /\ IF ~resp.hasAccounts
           THEN /\ pc' = "done"
                /\ result' = TotalsNoAccounts(resp.err)
                /\ UNCHANGED <<postBalances, k, allMints, tokensBought, tokensSold>>
           ELSE /\ postBalances' = TotalsPostTok(uniqueAccounts, resp.accounts, primaryWallet,
                                                 Len(resp.accounts))
                /\ allMints' = AllMints(uniqueAccounts, preBalances, resp.accounts, primaryWallet)
                /\ IF SolAmount(preBalances, primaryWallet) # SolAmount(postBalances', primaryWallet)
                   THEN /\ pc' = "sol"
                        /\ UNCHANGED <<k, tokensBought, tokensSold, result>>
                   ELSE TotalsLoop(1, allMints', tokensBought, tokensSold, resp.err)
    /\ UNCHANGED <<serializedTransaction, pipeline, primaryWallet, uniqueAccounts, i, preBalances, tokenInfoCache>>
    /\ UNCHANGED mainVars
    /\ UNCHANGED callVars

solTokenInfoReturnsTotals ==
    /\ pc = "sol"
    /\ pipeline = "totals"
    /\ \E ans \in AnswersFor(SOL_MINT, tokenInfoCache) :
        LET solBalanceChange == SolAmount(postBalances, primaryWallet)
                                - SolAmount(preBalances, primaryWallet)
            entry == TotalsEntry(SOL_MINT, solBalanceChange, "SOL", LAMPORTS_PER_SOL,
                                 fetchTokenInfo(SOL_MINT, tokenInfoCache, ans))
        IN /\ tokenInfoCache' = CacheAfter(SOL_MINT, tokenInfoCache, ans)
           /\ postBalances' = postBalances
           /\ TotalsLoop(1, allMints,
                         IF solBalanceChange > 0 THEN Append(tokensBought, entry) ELSE tokensBought,
                         IF solBalanceChange < 0 THEN Append(tokensSold, entry) ELSE tokensSold,
                         simErr)
    /\ UNCHANGED <<serializedTransaction, pipeline, primaryWallet, uniqueAccounts, i, preBalances, simErr, postSimAccounts, allMints>>
    /\ UNCHANGED mainVars
    /\ UNCHANGED callVars

totalsTokenInfoReturns ==
    /\ pc = "tok"
    /\ pipeline = "totals"
    /\ \E ans \in AnswersFor(allMints[k], tokenInfoCache) :
        LET mint == allMints[k]
            difference == Difference(mint, preBalances, postBalances)
            info == fetchTokenInfo(mint, tokenInfoCache, ans)
            entry == TotalsEntry(mint, difference, info.symbol, Pow10(info.decimals), info)
        IN /\ tokenInfoCache' = CacheAfter(mint, tokenInfoCache, ans)
           /\ postBalances' = postBalances
           /\ TotalsLoop(k + 1, allMints,
                         IF difference > 0 THEN Append(tokensBought, entry) ELSE tokensBought,
                         IF difference > 0 THEN tokensSold ELSE Append(tokensSold, entry),
                         simErr)
    /\ UNCHANGED <<serializedTransaction, pipeline, primaryWallet, uniqueAccounts, i, preBalances, simErr, postSimAccounts, allMints>>
    /\ UNCHANGED mainVars
    /\ UNCHANGED callVars

NextTotals ==
    \/ processTransactionTotals
    \/ getBalanceReturns
    \/ getAccountInfoReturnsTotals
    \/ simulateReturnsTotals
    \/ solTokenInfoReturnsTotals
    \/ totalsTokenInfoReturns

SpecTotals == Init /\ [][NextTotals]_vars

(***************************************************************************)
(* fetchTokenInfo on its own (src/src/versioned.ts): the function is       *)
(* exported and its cache is shared by every caller in the process.  A     *)
(* call runs to the await of axios.get in one step and from the answer to  *)
(* its return in a second one; calls of different callers interleave at    *)
(* the await.                                                              *)
(***************************************************************************)
\* number of calls a behaviour makes in all
MaxCalls == 4

CacheMints == Mints \cup {JUP_MINT}

\* response.data the metadata service can answer with: its record, the record
\* after the service changed the icon, and a record with fields missing
TokenListData(m) ==
    IF m = USDC_MINT
    THEN JupiterData(m)
         \cup {[logoURI |-> "https://logo/usdc-v2.png", decimals |-> {6}, symbol |-> "USDC", name |-> "USD Coin"]}
    ELSE {[logoURI |-> Undefined, decimals |-> {}, symbol |-> "JUP", name |-> Undefined]}

\* outcomes of axios.get for a mint
TokenListAnswers(m) ==
    {LookupFails} \cup {[ok |-> TRUE, issued |-> TRUE, data |-> d] : d \in TokenListData(m)}

\* what the call returns once axios.get has answered
LookupResult(m, ans) == IF ans.ok THEN ParsedInfo(ans.data) ELSE DefaultInfo(m)

\* the failure default stored like a real answer
CacheSet_CachesDefault(m, cache, ans) == MapSet(cache, m, LookupResult(m, ans))

\* tokenInfoCache after axios.get has answered: set without a second look
CacheSet(m, cache, ans) ==
    IF ans.ok THEN MapSet(cache, m, ParsedInfo(ans.data)) ELSE cache

InFlight == {c \in Callers : call[c].at = "lookup"}

\* everything of a request, which a call of fetchTokenInfo leaves alone
requestVars == <<pc, serializedTransaction, pipeline, primaryWallet, uniqueAccounts, i,
                 preBalances, solPreBalances, postBalances, solPostBalances, simErr,
                 postSimAccounts, walletChanges, k, buying, selling, totalSolChange,
                 result, allMints, tokensBought, tokensSold, inFlight, preFetchErrors>>

\* the record of a call that returned; after is the number of calls that had
\* returned when this one was made
Fetched(c, m, after, readCache, issued, ok, info) ==
    [caller |-> c, mintAddress |-> m, after |-> after, readCache |-> readCache,
     issued |-> issued, ok |-> ok, info |-> info]

\* caller c calls fetchTokenInfo(m): returns at once on the static and the
\* cached path, otherwise suspends at axios.get
fetchTokenInfoCalled(c) ==
    /\ call[c].at = "idle"
    /\ Len(fetched) + Cardinality(InFlight) < MaxCalls
    /\ \E m \in CacheMints :
        IF NeedsLookup(m, tokenInfoCache)
        THEN /\ call' = [call EXCEPT ![c] = [at |-> "lookup", mintAddress |-> m,
                                                after |-> Len(fetched)]]
             /\ UNCHANGED fetched
        ELSE /\ fetched' = Append(fetched,
                               Fetched(c, m, Len(fetched), m # SOL_MINT, FALSE, FALSE,
                                       fetchTokenInfo(m, tokenInfoCache, NoLookup)))
             /\ UNCHANGED call
    /\ UNCHANGED <<tokenInfoCache, writes>>
    /\ UNCHANGED requestVars

\* axios.get answers caller c
axiosGetReturns(c) ==
    /\ call[c].at = "lookup"
    /\ LET m == call[c].mintAddress
       IN \E ans \in TokenListAnswers(m) :
            /\ tokenInfoCache' = CacheSet(m, tokenInfoCache, ans)
            /\ writes' = IF ans.ok
                         THEN Append(writes, [mint |-> m, info |-> ParsedInfo(ans.data)])
                         ELSE writes
            /\ fetched' = Append(fetched, Fetched(c, m, call[c].after, TRUE, TRUE, ans.ok,
                                                    LookupResult(m, ans)))
    /\ call' = [call EXCEPT ![c] = Idle]
    /\ UNCHANGED requestVars

\* one caller: every call returns before the next is made
NextCache ==
    \/ fetchTokenInfoCalled("r1")
    \/ axiosGetReturns("r1")

SpecCache == Init /\ [][NextCache]_vars

\* concurrent requests
NextConcurrent ==
    \/ \E c \in Callers : fetchTokenInfoCalled(c)
    \/ \E c \in Callers : axiosGetReturns(c)

SpecConcurrent == Init /\ [][NextConcurrent]_vars

(***************************************************************************)
(* What the properties below read off a finished request.                  *)
(***************************************************************************)
\* the request returned a result
Returned == pc = "done"

\* positions of the entries of a list that carry mint m
EntriesOf(list, m) == {j \in 1..Len(list) : list[j].mint = m}

\* number of entries with mint m across buying and selling of the result
EntryCount(m) ==
    Cardinality(EntriesOf(result.buying, m)) + Cardinality(EntriesOf(result.selling, m))

RECURSIVE SumChanges(_, _)
\* sum of balanceChange over the entries of a list at the positions js
SumChanges(list, js) ==
    IF js = {} THEN 0
    ELSE LET j == CHOOSE x \in js : TRUE
         IN list[j].balanceChange + SumChanges(list, js \ {j})

\* sum of balanceChange over every entry of the result with mint m
EmittedSum(m) ==
    SumChanges(result.buying, EntriesOf(result.buying, m))
    + SumChanges(result.selling, EntriesOf(result.selling, m))

\* token accounts of mint m whose pre-snapshot owner is the primary wallet
\* and that have a post-snapshot record
OwnedAccounts(m) ==
    {a \in DOMAIN preBalances :
        /\ preBalances[a].mint = m
        /\ preBalances[a].owner = primaryWallet
        /\ a \in DOMAIN postBalances}

RECURSIVE SumDeltas(_)
\* sum of postAmount - preAmount over a set of accounts
SumDeltas(as) ==
    IF as = {} THEN 0
    ELSE LET a == CHOOSE x \in as : TRUE
         IN (postBalances[a].amount - preBalances[a].amount) + SumDeltas(as \ {a})

\* the per-mint total of the wallet
MintTotal(m) == SumDeltas(OwnedAccounts(m))

\* the wallet's native balance is known in both snapshots
NativeKnown == Has(solPreBalances, primaryWallet) /\ Has(solPostBalances, primaryWallet)
NativeDelta == solPostBalances[primaryWallet] - solPreBalances[primaryWallet]

AllEntriesOfResult == result.buying \o result.selling

(***************************************************************************)
(* C1: in the result of either pipeline, for every mint M, at most one     *)
(* entry with mint M exists across buying and selling combined, also when  *)
(* the wallet owns two token accounts of M whose balances both change.     *)
(***************************************************************************)
C1_SingleEntryPerMint ==
    Returned => \A m \in Mints : EntryCount(m) <= 1

(***************************************************************************)
(* C2: in either pipeline every emitted entry of a non-native mint M       *)
(* carries the per-mint total: the sum of postAmount - preAmount over the  *)
(* wallet's accounts of M that have a post-snapshot record.                *)
(***************************************************************************)
C2_EntryIsMintTotal ==
    Returned =>
        \A j \in 1..Len(AllEntriesOfResult) :
            AllEntriesOfResult[j].mint # SOL_MINT
            => AllEntriesOfResult[j].balanceChange = MintTotal(AllEntriesOfResult[j].mint)

(***************************************************************************)
(* C3: in either pipeline every entry of buying has balanceChange > 0 and  *)
(* every entry of selling has balanceChange < 0, also when two accounts of *)
(* one mint change by +d and -d.                                           *)
(***************************************************************************)
C3_SignClassification ==
    Returned =>
        /\ \A j \in 1..Len(result.buying) : result.buying[j].balanceChange > 0
        /\ \A j \in 1..Len(result.selling) : result.selling[j].balanceChange < 0

(***************************************************************************)
(* C4: in either pipeline, a mint whose per-account changes over the       *)
(* wallet's accounts cancel to zero has no entry in buying or selling.     *)
(***************************************************************************)
C4_NoZeroEmission ==
    Returned =>
        \A m \in Mints \ {SOL_MINT} :
            (OwnedAccounts(m) # {} /\ MintTotal(m) = 0) => EntryCount(m) = 0

(***************************************************************************)
(* C5: in the versioned pipeline, for any number of wrapped-native token   *)
(* accounts of the wallet, the result has at most one entry with the       *)
(* native mint, and that entry carries nativeDelta + the sum of all the    *)
(* wallet's wrapped-native deltas.                                         *)
(***************************************************************************)
C5_OneMergedNativeEntry ==
    (Returned /\ pipeline = "versioned" /\ NativeKnown) =>
        /\ EntryCount(SOL_MINT) <= 1
        /\ \A j \in 1..Len(AllEntriesOfResult) :
              AllEntriesOfResult[j].mint = SOL_MINT
              => AllEntriesOfResult[j].balanceChange = NativeDelta + MintTotal(SOL_MINT)

(***************************************************************************)
(* C6: in the versioned pipeline, when the wallet's native balance drops   *)
(* by X > 0 and one wrapped-native token account of the wallet gains X,    *)
(* with no other change, buying and selling are both empty.                *)
(***************************************************************************)
\* account a is the only thing that changed besides the native balance
OnlyWrappedGain(a, x) ==
    /\ Has(preBalances, a)
    /\ preBalances[a].mint = SOL_MINT
    /\ preBalances[a].owner = primaryWallet
    /\ Has(postBalances, a)
    /\ postBalances[a].amount = preBalances[a].amount + x
    /\ \A b \in (DOMAIN preBalances) \ {a} :
          Has(postBalances, b) /\ postBalances[b] = preBalances[b]

C6_Case ==
    /\ Returned
    /\ pipeline = "versioned"
    /\ NativeKnown
    /\ NativeDelta < 0
    /\ \E a \in DOMAIN preBalances : OnlyWrappedGain(a, -NativeDelta)

\* C6: in that case the versioned result has no entry at all
C6_FullCancellation ==
    C6_Case => (result.buying = <<>> /\ result.selling = <<>>)

C6_Witness ==
    C6_Case /\ result.buying = <<>> /\ result.selling = <<>>

(***************************************************************************)
(* C7: in the legacy pipeline, whenever the wallet's merged native figure  *)
(* (post native balance - pre native balance, plus the wrapped-native      *)
(* total) is nonzero, the result has exactly one native entry carrying     *)
(* that figure, in the list its sign selects.                              *)
(***************************************************************************)
MergedNative == NativeDelta + MintTotal(SOL_MINT)

\* C7: a nonzero merged native figure of the legacy pipeline is emitted as
\* exactly one native entry
C7_LegacyNativeEntry ==
    (Returned /\ pipeline = "legacy" /\ NativeKnown /\ MergedNative # 0) =>
        /\ EntryCount(SOL_MINT) = 1
        /\ IF MergedNative > 0
           THEN \E j \in 1..Len(result.buying) :
                    /\ result.buying[j].mint = SOL_MINT
                    /\ result.buying[j].balanceChange = MergedNative
           ELSE \E j \in 1..Len(result.selling) :
                    /\ result.selling[j].mint = SOL_MINT
                    /\ result.selling[j].balanceChange = MergedNative

(***************************************************************************)
(* C8: in either pipeline a token account whose pre-snapshot owner is not  *)
(* the primary wallet contributes to no entry: per mint, the entries add   *)
(* up to the changes of the wallet's own accounts (plus, for the native    *)
(* mint of the versioned pipeline, the wallet's native delta), and a       *)
(* token entry exists only if an account of the wallet changed.            *)
(***************************************************************************)
\* the part of the native mint's entries that comes from the native balance
NativePart(m) ==
    IF pipeline = "versioned" /\ m = SOL_MINT /\ NativeKnown THEN NativeDelta ELSE 0

\* an account of the wallet with mint m changed its amount
OwnedChanged(m) ==
    \E a \in OwnedAccounts(m) : postBalances[a].amount # preBalances[a].amount

\* C8: only accounts whose pre-snapshot owner is the wallet contribute
C8_OnlyOwnedContribute ==
    Returned =>
        \A m \in Mints :
            /\ EmittedSum(m) = MintTotal(m) + NativePart(m)
            /\ (EntryCount(m) > 0 /\ ~(pipeline = "versioned" /\ m = SOL_MINT))
               => OwnedChanged(m)

\* somebody else's account of a mint changed, an account of the wallet with the
\* same mint changed too, and the result has the wallet's entry alone
C8_Witness ==
    /\ Returned
    /\ \E a \in DOMAIN preBalances, b \in DOMAIN preBalances :
          /\ preBalances[a].owner # primaryWallet
          /\ Has(postBalances, a)
          /\ postBalances[a].amount # preBalances[a].amount
          /\ preBalances[b].owner = primaryWallet
          /\ preBalances[b].mint = preBalances[a].mint
          /\ preBalances[b].mint # SOL_MINT
          /\ Has(postBalances, b)
          /\ postBalances[b].amount # preBalances[b].amount
          /\ EntryCount(preBalances[b].mint) = 1
          /\ EmittedSum(preBalances[b].mint) = postBalances[b].amount - preBalances[b].amount

(***************************************************************************)
(* C9: a token account that has a token record in the pre-snapshot and     *)
(* none in the post-snapshot contributes no delta; it is not reported as   *)
(* a disposal of its pre balance.  Stated for the second variant of the    *)
(* legacy pipeline: a mint all of whose tracked accounts lost their        *)
(* record has no entry in tokensBought or tokensSold.                      *)
(***************************************************************************)
\* addresses with a token record of mint m in the pre-snapshot
TrackedPre(m) == {key[2] : key \in {x \in DOMAIN preBalances : ~IsSolKey(x) /\ x[1] = m}}
\* addresses with a token record, of any mint, in the post-snapshot
TrackedPost == {key[2] : key \in {x \in DOMAIN postBalances : ~IsSolKey(x)}}

\* every account of mint m was closed, and no account carries m afterwards
AllClosed(m) ==
    /\ TrackedPre(m) # {}
    /\ TrackedPre(m) \cap TrackedPost = {}
    /\ \A key \in DOMAIN postBalances : IsSolKey(key) \/ key[1] # m

\* C9: an account without a post-snapshot record contributes no delta
C9_ClosedAccountNoDelta ==
    (Returned /\ pipeline = "totals" /\ "tokensSold" \in DOMAIN result) =>
        \A m \in Mints \ {SOL_MINT} :
            AllClosed(m) =>
                /\ EntriesOf(result.tokensBought, m) = {}
                /\ EntriesOf(result.tokensSold, m) = {}

(***************************************************************************)
(* The same skip in the versioned pipeline and in the first variant of the *)
(* legacy pipeline, where it holds: a mint all of whose accounts of the    *)
(* wallet have no post-snapshot record has no entry.                       *)
(***************************************************************************)
\* accounts of mint m the wallet owns in the pre-snapshot
OwnedPre(m) ==
    {a \in DOMAIN preBalances :
        preBalances[a].mint = m /\ preBalances[a].owner = primaryWallet}

SkipOfClosedAccounts ==
    Returned =>
        \A m \in Mints :
            (OwnedPre(m) # {} /\ OwnedAccounts(m) = {} /\ ~(pipeline = "versioned" /\ m = SOL_MINT))
            => EntryCount(m) = 0

SkipOfClosedAccounts_Witness ==
    /\ Returned
    /\ \E m \in Mints :
          /\ \E a \in OwnedPre(m) : preBalances[a].amount > 0
          /\ OwnedAccounts(m) = {}
          /\ EntryCount(m) = 0

(***************************************************************************)
(* C10: in either pipeline, in every result that is returned, success is   *)
(* true if and only if the error field of the simulation response is null. *)
(***************************************************************************)
C10_SuccessIffNoError ==
    Returned => (result.success <=> (simErr = "null"))

(***************************************************************************)
(* The lists as a function of the two snapshots alone: the error field of  *)
(* the response is no argument of any operator below.                      *)
(***************************************************************************)
\* the <<mint, balanceChange>> pairs of a list of assets, in order
Pairs(list) == [j \in 1..Len(list) |-> <<list[j].mint, list[j].balanceChange>>]

RECURSIVE VersionedRaw(_)
\* the pairs the versioned token loop pushes for the first j accounts
VersionedRaw(j) ==
    IF j = 0 THEN <<>>
    ELSE IF VersionedEmits(uniqueAccounts[j], primaryWallet, preBalances, postBalances)
         THEN Append(VersionedRaw(j - 1),
                     <<preBalances[uniqueAccounts[j]].mint,
                       postBalances[uniqueAccounts[j]].amount - preBalances[uniqueAccounts[j]].amount>>)
         ELSE VersionedRaw(j - 1)

\* a list of pairs without its first wrapped-native pair
DropFirstSol(ps) ==
    IF \E j \in 1..Len(ps) : ps[j][1] = SOL_MINT
    THEN RemoveAt(ps, CHOOSE j \in 1..Len(ps) :
                        ps[j][1] = SOL_MINT /\ \A h \in 1..(j - 1) : ps[h][1] # SOL_MINT)
    ELSE ps

\* the change of the first wrapped-native pair of a list, 0 without one
FirstSolChange(ps) ==
    IF \E j \in 1..Len(ps) : ps[j][1] = SOL_MINT
    THEN ps[CHOOSE j \in 1..Len(ps) :
                ps[j][1] = SOL_MINT /\ \A h \in 1..(j - 1) : ps[h][1] # SOL_MINT][2]
    ELSE 0

VersionedRawBuying == SelectSeq(VersionedRaw(Len(uniqueAccounts)), LAMBDA p : p[2] > 0)
VersionedRawSelling == SelectSeq(VersionedRaw(Len(uniqueAccounts)), LAMBDA p : ~(p[2] > 0))

VersionedTotalSol ==
    TargetWalletSolChange(primaryWallet, solPreBalances, solPostBalances)
    + FirstSolChange(VersionedRawBuying) + FirstSolChange(VersionedRawSelling)

\* the pairs of the two lists the versioned pipeline computes from the snapshots
VersionedExpectedBuying ==
    DropFirstSol(VersionedRawBuying)
    \o (IF VersionedTotalSol > 0 THEN << <<SOL_MINT, VersionedTotalSol>> >> ELSE <<>>)
VersionedExpectedSelling ==
    DropFirstSol(VersionedRawSelling)
    \o (IF VersionedTotalSol < 0 THEN << <<SOL_MINT, VersionedTotalSol>> >> ELSE <<>>)

\* the pairs the legacy pipeline computes for the primary wallet
LegacyExpected ==
    LET changes == LegacyWalletChanges(uniqueAccounts, preBalances, postBalances,
                                       Len(uniqueAccounts))
    IN IF Has(changes, primaryWallet)
       THEN [j \in 1..Len(changes[primaryWallet]) |->
                <<changes[primaryWallet][j].mint, changes[primaryWallet][j].change>>]
       ELSE <<>>
LegacyExpectedBuying == SelectSeq(LegacyExpected, LAMBDA p : p[2] > 0)
LegacyExpectedSelling == SelectSeq(LegacyExpected, LAMBDA p : ~(p[2] > 0))

\* the metadata fetchTokenInfo can return for a mint
InfosOf(m) ==
    IF m = SOL_MINT THEN {StaticSolInfo}
    ELSE {DefaultInfo(m)} \cup {ParsedInfo(d) : d \in JupiterData(m)}

\* every entry of a list is the asset of its pair with metadata of its mint
WellFormed(list) ==
    \A j \in 1..Len(list) :
        list[j] \in {TokenAsset(list[j].mint, list[j].balanceChange, inf) : inf \in InfosOf(list[j].mint)}

\* the result carries the lists the snapshots determine
ListsFromSnapshots ==
    /\ Pairs(result.buying) = IF pipeline = "versioned" THEN VersionedExpectedBuying
                              ELSE LegacyExpectedBuying
    /\ Pairs(result.selling) = IF pipeline = "versioned" THEN VersionedExpectedSelling
                               ELSE LegacyExpectedSelling
    /\ WellFormed(result.buying)
    /\ WellFormed(result.selling)

\* the response carried an account array and a non-null error field
ErrorWithAccounts == postSimAccounts = "array" /\ simErr # "null"

(***************************************************************************)
(* C11: in either pipeline, when the simulation response has a non-null    *)
(* error field and carries an account array, no exception is raised, and   *)
(* the returned buying and selling are exactly the lists the pre and post  *)
(* snapshots determine (the same as with a null error field); success is   *)
(* false.                                                                  *)
(***************************************************************************)
C11_ErrorKeepsDeltas ==
    postSimAccounts = "array" =>
        /\ pc # "thrown"
        /\ Returned => (ListsFromSnapshots /\ (result.success <=> (simErr = "null")))

\* a failed simulation that still reports an acquisition and a disposal
C11_Witness ==
    /\ Returned
    /\ ErrorWithAccounts
    /\ result.buying # <<>>
    /\ result.selling # <<>>
    /\ result.success = FALSE

(***************************************************************************)
(* C12: in either pipeline, when the simulation response has no account    *)
(* array the request ends in a thrown error; it never returns a result     *)
(* with empty buying and selling.                                          *)
(***************************************************************************)
C12_MissingAccountsThrow ==
    postSimAccounts = Undefined => (pc = "thrown" /\ result = NoResult)

\* the versioned pipeline does throw on a response without an account array
VersionedMissingAccountsThrow ==
    (pipeline = "versioned" /\ postSimAccounts = Undefined) => (pc = "thrown" /\ result = NoResult)

VersionedMissingAccountsThrow_Witness ==
    pipeline = "versioned" /\ postSimAccounts = Undefined /\ pc = "thrown"

(***************************************************************************)
(* C13: processTransaction runs the versioned pipeline for a text starting *)
(* with AQ and no other, the legacy pipeline for a text starting with Ag   *)
(* and no other, and for every other text throws the format error with     *)
(* neither pipeline entered and no RPC call made.                          *)
(***************************************************************************)
\* processTransaction has been called
Dispatched == pc # "start"

\* no answer of an RPC call has been taken and no step of a pipeline can follow
NoCallMade ==
    /\ pipeline = "none"
    /\ primaryWallet = "none"
    /\ uniqueAccounts = <<>>
    /\ i = 1
    /\ preBalances = EmptyMap
    /\ solPreBalances = EmptyMap
    /\ postSimAccounts = "none"
    /\ tokenInfoCache = EmptyMap
    /\ result = NoResult
    /\ ~ENABLED getAccountInfoReturns
    /\ ~ENABLED simulateReturnsVersioned
    /\ ~ENABLED simulateReturnsLegacy
    /\ ~ENABLED versionedTokenInfoReturns
    /\ ~ENABLED legacyTokenInfoReturns
    /\ ~ENABLED solTokenInfoReturns

C13_Dispatch ==
    Dispatched =>
        /\ (serializedTransaction = "AQ") <=> (pipeline = "versioned")
        /\ (serializedTransaction = "Ag") <=> (pipeline = "legacy")
        /\ (serializedTransaction \notin {"AQ", "Ag"}) => (pc = "thrown" /\ NoCallMade)

\* a text with the wrong case in its second character is rejected
C13_Witness ==
    /\ serializedTransaction = "Aq"
    /\ pc = "thrown"
    /\ pipeline = "none"

(***************************************************************************)
(* What the properties below read off the calls of fetchTokenInfo.         *)
(***************************************************************************)
\* the call looked the mint up and the lookup failed
FailedLookup(f) == f.issued /\ ~f.ok
\* the call looked the mint up and got an answer
GoodLookup(f) == f.issued /\ f.ok

\* position of the first call after j for the same mint, 0 when there is none
NextCallFor(j) ==
    LET later == {h \in (j + 1)..Len(fetched) : fetched[h].mintAddress = fetched[j].mintAddress}
    IN IF later = {} THEN 0 ELSE CHOOSE h \in later : \A x \in later : h <= x

\* the records a successful lookup of m can produce
RealInfos(m) == {ParsedInfo(d) : d \in TokenListData(m)}

(***************************************************************************)
(* C14: a failed lookup for a non-native mint m returns a value to the     *)
(* caller (no exception), leaves the cache without an entry for m, and the *)
(* next fetchTokenInfo(m) issues a new lookup; when that lookup succeeds   *)
(* its metadata is returned and is the cache entry of m.                   *)
(***************************************************************************)
C14_FailureNotCached ==
    \A j \in 1..Len(fetched) :
        FailedLookup(fetched[j]) =>
            /\ fetched[j].info = DefaultInfo(fetched[j].mintAddress)
            /\ (j = Len(fetched)) => ~Has(tokenInfoCache, fetched[j].mintAddress)
            /\ NextCallFor(j) # 0 =>
                LET n == fetched[NextCallFor(j)]
                IN /\ n.issued
                   /\ n.ok => /\ n.info \in RealInfos(n.mintAddress)
                              /\ Has(tokenInfoCache, n.mintAddress)
                              /\ tokenInfoCache[n.mintAddress] = n.info

\* a lookup fails, the retry succeeds
C14_Witness ==
    /\ Len(fetched) >= 2
    /\ fetched[1].mintAddress = USDC_MINT
    /\ FailedLookup(fetched[1])
    /\ fetched[2].mintAddress = USDC_MINT
    /\ GoodLookup(fetched[2])
    /\ tokenInfoCache[USDC_MINT] = fetched[2].info

(***************************************************************************)
(* C15: when the lookup for a non-native mint fails, fetchTokenInfo        *)
(* returns zero-valued defaults for every field: decimals 0, an empty icon *)
(* URI, and an empty or absent symbol and name.                            *)
(***************************************************************************)
C15_ZeroDefaults ==
    \A j \in 1..Len(fetched) :
        FailedLookup(fetched[j]) =>
            /\ fetched[j].info.decimals = 0
            /\ fetched[j].info.logouri = ""
            /\ fetched[j].info.symbol \in {"", Undefined}
            /\ fetched[j].info.name \in {"", Undefined}

\* C15 as amended: decimals 0, an empty icon URI, no name, and as symbol the
\* abbreviated mint address (first four characters, "...", last four)
C15_DefaultsWithShortSymbol ==
    \A j \in 1..Len(fetched) :
        FailedLookup(fetched[j]) =>
            /\ fetched[j].info.decimals = 0
            /\ fetched[j].info.logouri = ""
            /\ fetched[j].info.name = Undefined
            /\ fetched[j].info.symbol # ""
            /\ fetched[j].mintAddress = USDC_MINT => fetched[j].info.symbol = "EPjF...Dt1v"
            /\ fetched[j].mintAddress = JUP_MINT => fetched[j].info.symbol = "JUPy...DvCN"

C15_Witness ==
    \E j \in 1..Len(fetched) :
        /\ FailedLookup(fetched[j])
        /\ fetched[j].mintAddress = JUP_MINT
        /\ fetched[j].info.symbol = "JUPy...DvCN"

(***************************************************************************)
(* C16: once fetchTokenInfo(m) has succeeded for a non-native mint m,      *)
(* every later fetchTokenInfo(m), whatever calls were made in between      *)
(* (failing lookups of other mints included), returns the same metadata    *)
(* and issues no lookup; the cache entry of m stays as it was written.     *)
(***************************************************************************)
C16_CachedForGood ==
    \A j \in 1..Len(fetched) :
        GoodLookup(fetched[j]) =>
            /\ Has(tokenInfoCache, fetched[j].mintAddress)
            /\ tokenInfoCache[fetched[j].mintAddress] = fetched[j].info
            /\ \A h \in 1..Len(fetched) :
                (fetched[h].after >= j /\ fetched[h].mintAddress = fetched[j].mintAddress) =>
                    /\ ~fetched[h].issued
                    /\ fetched[h].info = fetched[j].info

\* a success, a failing lookup of another mint, then the first mint again
C16_Witness ==
    /\ Len(fetched) >= 3
    /\ fetched[1].mintAddress = USDC_MINT /\ GoodLookup(fetched[1])
    /\ fetched[2].mintAddress = JUP_MINT /\ FailedLookup(fetched[2])
    /\ fetched[3].mintAddress = USDC_MINT
    /\ fetched[3].info = fetched[1].info

(***************************************************************************)
(* C17: under any interleaving of concurrent fetchTokenInfo calls for the  *)
(* same mint, each cache key is written at most once, and a later write    *)
(* never replaces an existing entry with a different value.                *)
(***************************************************************************)
C17_WriteOnce ==
    \A j, h \in 1..Len(writes) :
        (j < h /\ writes[j].mint = writes[h].mint) => FALSE

\* the weaker half alone: a second write of a key stores the value it holds
NoDifferentRewrite ==
    \A j, h \in 1..Len(writes) :
        (j < h /\ writes[j].mint = writes[h].mint) => writes[j].info = writes[h].info

(***************************************************************************)
(* C18: fetchTokenInfo of the native pseudo-mint returns the fixed record  *)
(* with decimals 9 whatever the cache holds and whatever the metadata      *)
(* service would answer, issues no lookup, and neither reads nor writes    *)
(* the cache.                                                              *)
(***************************************************************************)
C18_NativeIsStatic ==
    /\ \A j \in 1..Len(fetched) :
        fetched[j].mintAddress = SOL_MINT =>
            /\ fetched[j].info.decimals = 9
            /\ fetched[j].info.symbol = "SOL"
            /\ fetched[j].info.name = "Wrapped SOL"
            /\ fetched[j].info = StaticSolInfo
            /\ ~fetched[j].issued
            /\ ~fetched[j].readCache
    /\ ~Has(tokenInfoCache, SOL_MINT)
    /\ \A j \in 1..Len(writes) : writes[j].mint # SOL_MINT
    /\ \A c \in Callers : call[c].mintAddress # SOL_MINT

\* the native mint asked for while the cache holds another mint's entry
C18_Witness ==
    /\ Has(tokenInfoCache, USDC_MINT)
    /\ Len(fetched) >= 2
    /\ fetched[Len(fetched)].mintAddress = SOL_MINT
    /\ fetched[Len(fetched)].info.decimals = 9

(***************************************************************************)
(* C19: for a snapshot pair with no wrapped-native token account, the sum  *)
(* of balanceChange over all entries of buying and selling equals the sum  *)
(* of post amount - pre amount over the wallet's own token accounts, also  *)
(* when the wallet's native balance changes.                               *)
(***************************************************************************)
\* no token account of either snapshot holds the wrapped-native mint
NoWrappedAccount ==
    /\ \A a \in DOMAIN preBalances : preBalances[a].mint # SOL_MINT
    /\ \A a \in DOMAIN postBalances : postBalances[a].mint # SOL_MINT

\* sum of the changes of the wallet's own token accounts
TokenSum ==
    SumDeltas({a \in DOMAIN preBalances :
                  preBalances[a].owner = primaryWallet /\ a \in DOMAIN postBalances})

SumOfList(list) == SumChanges(list, 1..Len(list))
SumAllEntries == SumOfList(result.buying) + SumOfList(result.selling)
SumTokenEntries ==
    SumChanges(result.buying, {j \in 1..Len(result.buying) : result.buying[j].mint # SOL_MINT})
    + SumChanges(result.selling, {j \in 1..Len(result.selling) : result.selling[j].mint # SOL_MINT})

\* a result computed from an account array, without wrapped-native accounts
C19_Case == Returned /\ postSimAccounts = "array" /\ NoWrappedAccount

C19_SumEqualsTokenDeltas == C19_Case => SumAllEntries = TokenSum

\* C19 as amended: the entries other than the native entry add up to the
\* token sum; the versioned pipeline adds the native entry with the change of
\* the wallet's native balance, the legacy pipeline adds none
C19_TokenEntriesConserve ==
    C19_Case =>
        /\ SumTokenEntries = TokenSum
        /\ SumAllEntries = TokenSum
                + (IF pipeline = "versioned"
                   THEN TargetWalletSolChange(primaryWallet, solPreBalances, solPostBalances)
                   ELSE 0)

\* a fee paid from the native balance beside a token disposal
C19_Witness ==
    /\ C19_Case
    /\ pipeline = "versioned"
    /\ TargetWalletSolChange(primaryWallet, solPreBalances, solPostBalances) < 0
    /\ TokenSum < 0
    /\ SumTokenEntries = TokenSum

(***************************************************************************)
(* C20: in either pipeline, for every mint M other than the wrapped-native *)
(* mint, when the changes of M over the wallet's own accounts that have a  *)
(* pre and a post record add up to a nonzero total, the result has an      *)
(* entry for M in buying or selling.                                       *)
(***************************************************************************)
C20_NothingDropped ==
    (Returned /\ postSimAccounts = "array") =>
        \A m \in Mints \ {SOL_MINT} : MintTotal(m) # 0 => EntryCount(m) >= 1

\* a loss of the wallet reported by the versioned pipeline
C20_Witness ==
    /\ Returned
    /\ postSimAccounts = "array"
    /\ pipeline = "versioned"
    /\ MintTotal(USDC_MINT) < 0
    /\ EntryCount(USDC_MINT) >= 1

(***************************************************************************)
(* C21: in either pipeline, when exactly one token account A of a          *)
(* non-native mint M owned by the primary wallet goes from amount a to     *)
(* a + d with d > 0 and nothing else changes (the native balance           *)
(* included), buying is one entry with mint M and balanceChange d, and     *)
(* selling is empty.                                                       *)
(***************************************************************************)
\* account x has the same record, or none, in both snapshots
SameRecord(x) ==
    /\ Has(preBalances, x) <=> Has(postBalances, x)
    /\ Has(preBalances, x) => preBalances[x] = postBalances[x]

\* no native balance known in both snapshots differs
NativeUnchanged ==
    \A x \in (DOMAIN solPreBalances) \cap (DOMAIN solPostBalances) :
        solPreBalances[x] = solPostBalances[x]

\* a is the one account that changed: it gained tokens of a non-native mint
OnlyGain(a) ==
    /\ Has(preBalances, a) /\ Has(postBalances, a)
    /\ preBalances[a].owner = primaryWallet
    /\ preBalances[a].mint # SOL_MINT
    /\ postBalances[a].mint = preBalances[a].mint
    /\ postBalances[a].owner = preBalances[a].owner
    /\ postBalances[a].amount > preBalances[a].amount
    /\ \A x \in ((DOMAIN preBalances) \cup (DOMAIN postBalances)) \ {a} : SameRecord(x)
    /\ NativeUnchanged

C21_SingleGain ==
    (Returned /\ postSimAccounts = "array") =>
        \A a \in DOMAIN preBalances :
            OnlyGain(a) =>
                /\ Pairs(result.buying)
                     = << <<preBalances[a].mint, postBalances[a].amount - preBalances[a].amount>> >>
                /\ result.selling = <<>>

\* the gain beside a second token account of the wallet that stays as it was
C21_Witness ==
    /\ Returned
    /\ postSimAccounts = "array"
    /\ \E a \in DOMAIN preBalances :
        /\ OnlyGain(a)
        /\ \E x \in (DOMAIN preBalances) \ {a} : preBalances[x].owner = primaryWallet
        /\ Len(result.buying) = 1

(***************************************************************************)
(* C22: in both pipelines the simulation request names exactly the         *)
(* enumerated account list, in enumeration order, as the accounts whose    *)
(* post-state it wants, so that entry i of the response is the post-state  *)
(* of enumerated account i.                                                *)
(***************************************************************************)
\* the simulation requests in flight
SimulateCalls == {c \in inFlight : c.call = "simulateTransaction"}

C22_RequestNamesAccounts ==
    \A c \in SimulateCalls : c.named /\ c.addresses = uniqueAccounts

\* the versioned pipeline alone does name them (versioned.ts:122-131)
VersionedRequestNamesAccounts ==
    pipeline = "versioned" =>
        \A c \in SimulateCalls : c.named /\ c.addresses = uniqueAccounts

\* a versioned request for three accounts awaiting its simulation
VersionedRequestNamesAccounts_Witness ==
    /\ pipeline = "versioned"
    /\ Len(uniqueAccounts) = 3
    /\ SimulateCalls # {}

(***************************************************************************)
(* C26: within one request the collaborator calls are made strictly in     *)
(* sequence: every pre-state fetch has been answered (or has failed)       *)
(* before the simulation request is issued, a metadata lookup is issued    *)
(* only after the simulation response has arrived, and no two collaborator *)
(* calls of the request are in flight at once.                             *)
(***************************************************************************)
C26_OneCallAtATime ==
    /\ Cardinality(inFlight) <= 1
    /\ \A c \in inFlight :
          /\ c.call = "getAccountInfo" =>
                pc = "pre" /\ c.address = uniqueAccounts[i] /\ postSimAccounts = "none"
          /\ c.call = "simulateTransaction" =>
                pc = "sim" /\ i = Len(uniqueAccounts) + 1 /\ postSimAccounts = "none"
          /\ c.call = "axios.get" =>
                pc \in {"tok", "sol"} /\ postSimAccounts = "array"

\* a metadata lookup in flight after three pre-state fetches and the simulation
C26_Witness ==
    /\ Len(uniqueAccounts) = 3
    /\ i = 4
    /\ postSimAccounts = "array"
    /\ \E c \in inFlight : c.call = "axios.get"

(***************************************************************************)
(* C23: when the pre-state fetch of one enumerated account raises an       *)
(* error, the pipeline does not abort: it goes on to the simulation and    *)
(* returns a result; the account has no pre-state, and the deltas of the   *)
(* wallet's other accounts are reported as they are without the failure.   *)
(***************************************************************************)
\* the wallet's accounts of mint m whose pre-state fetch did not fail
OwnedAccountsFetched(m) == OwnedAccounts(m) \ preFetchErrors

C23_PreFetchErrorTolerated ==
    preFetchErrors # {} =>
        \* the only throw left is the one for a response without accounts
        /\ pc = "thrown" => (pipeline = "versioned" /\ postSimAccounts = Undefined)
        \* while the request runs, its next collaborator call is issued
        /\ pc \in {"pre", "sim"} => inFlight # {}
        /\ pc = "pre" => preFetchErrors \subseteq {uniqueAccounts[j] : j \in 1..(i - 1)}
        \* no pre-state of the failed accounts
        /\ \A x \in preFetchErrors : ~Has(preBalances, x) /\ ~Has(solPreBalances, x)
        \* the other accounts' deltas are all in the result
        /\ (Returned /\ postSimAccounts = "array") =>
              \A m \in Mints \ {SOL_MINT} :
                  EmittedSum(m) = SumDeltas(OwnedAccountsFetched(m))

\* the fetch of one token account failed and the loss on the wallet's other
\* account is in the returned result
C23_Witness ==
    /\ Returned
    /\ postSimAccounts = "array"
    /\ Cardinality(preFetchErrors) = 1
    /\ preFetchErrors \subseteq TokenAddrs
    /\ \E a \in OwnedAccountsFetched(USDC_MINT) :
          postBalances[a].amount - preBalances[a].amount < 0
    /\ EmittedSum(USDC_MINT) < 0

(***************************************************************************)
(* C24: in the versioned pipeline a null or missing entry of the response  *)
(* means that no record is available for diffing: when the entry for the   *)
(* primary wallet is null, no native delta is derived from it; the post    *)
(* balance is not taken as 0 and the whole pre balance is not reported as  *)
(* disposed.  Stated for every response the awaited simulation can give.   *)
(***************************************************************************)
\* the responses whose entry for the primary wallet is null
NullWalletEntry(accounts) ==
    EntryAt(accounts, IndexOf(uniqueAccounts, primaryWallet)).kind = "null"

C24_NullEntryNoNativeDelta ==
    (pc = "sim" /\ pipeline = "versioned") =>
        \A accounts \in AccountArrays(uniqueAccounts) :
            NullWalletEntry(accounts) =>
                TargetWalletSolChange(primaryWallet, solPreBalances,
                                      VersionedPostSol(uniqueAccounts, accounts)) = 0

(***************************************************************************)
(* C25: in both pipelines and for both snapshots, a token record is stored *)
(* for an account only if the account is owned by the token program and    *)
(* its data has exactly ACCOUNT_SIZE bytes; any other account is a plain   *)
(* account.  Stated for every answer the awaited call can give.            *)
(***************************************************************************)
\* owned by the token program, with data of exactly the account layout's size
ExactTokenAccount(info) ==
    /\ info.kind = "acct"
    /\ info.owner = TOKEN_PROGRAM_ID
    /\ info.dataLen = ACCOUNT_SIZE

\* the pre-snapshot of either pipeline
PreRecordsExact ==
    pc = "pre" =>
        \A info \in WidePreAnswers(uniqueAccounts[i]) :
            Has(PreTokAfter(preBalances, uniqueAccounts[i], info), uniqueAccounts[i])
                => ExactTokenAccount(info)

\* the post-snapshot of the legacy pipeline
LegacyPostRecordsExact ==
    (pc = "sim" /\ pipeline = "legacy") =>
        \A accounts \in WideAccountArrays(uniqueAccounts) :
            \A key \in DOMAIN LegacyPostTok(uniqueAccounts, accounts, Len(accounts)) :
                \E j \in 1..Len(accounts) :
                    LegacyKey(uniqueAccounts, j) = key /\ ExactTokenAccount(accounts[j])

\* the post-snapshot of the versioned pipeline
VersionedPostRecordsExact ==
    (pc = "sim" /\ pipeline = "versioned") =>
        \A accounts \in WideAccountArrays(uniqueAccounts) :
            \A j \in 1..Len(uniqueAccounts) :
                Has(VersionedPostTok(uniqueAccounts, preBalances, accounts), uniqueAccounts[j])
                    => ExactTokenAccount(EntryAt(accounts, j))

C25_RecordsOnlyOfExactLength ==
    PreRecordsExact /\ LegacyPostRecordsExact /\ VersionedPostRecordsExact

\* the three snapshots that do test the length
ExactLengthElsewhere == PreRecordsExact /\ LegacyPostRecordsExact

(***************************************************************************)
(* C27: in the legacy pipeline every key of postBalances and of            *)
(* postSolBalances is the address of an enumerated account, whatever the   *)
(* response, also one whose account array is longer than the enumerated    *)
(* list.                                                                   *)
(***************************************************************************)
C27_PostKeysEnumerated ==
    pipeline = "legacy" =>
        (DOMAIN postBalances) \cup (DOMAIN solPostBalances) \subseteq Range(uniqueAccounts)

\* it holds of the versioned pipeline, which walks the enumerated list
VersionedPostKeysEnumerated ==
    pipeline = "versioned" =>
        (DOMAIN postBalances) \cup (DOMAIN solPostBalances) \subseteq Range(uniqueAccounts)

(***************************************************************************)
(* C28: after any sequence of fetchTokenInfo calls, every entry of the     *)
(* cache is the result of a successful lookup for its key, and the native  *)
(* pseudo-mint is never a key.                                             *)
(***************************************************************************)
\* the calls for mint m that returned from a successful lookup
GoodLookupsOf(m) ==
    {j \in 1..Len(fetched) : fetched[j].mintAddress = m /\ GoodLookup(fetched[j])}

C28_CacheHoldsLookups ==
    /\ ~Has(tokenInfoCache, SOL_MINT)
    /\ \A m \in DOMAIN tokenInfoCache :
          /\ tokenInfoCache[m] \in RealInfos(m)
          /\ \E j \in GoodLookupsOf(m) : fetched[j].info = tokenInfoCache[m]

\* an entry in the cache after a failed lookup, a good one, and a call for the
\* native mint
C28_Witness ==
    /\ Has(tokenInfoCache, JUP_MINT)
    /\ \E j \in 1..Len(fetched) : FailedLookup(fetched[j])
    /\ \E j \in 1..Len(fetched) : fetched[j].mintAddress = SOL_MINT

(***************************************************************************)
(* C29: in both pipelines the mint and the owner of an emitted delta are   *)
(* those of the pre-snapshot record alone: an account whose post record    *)
(* names another owner or mint still contributes post - pre under its pre  *)
(* mint to its pre owner, and an account that has a token record only in   *)
(* the post-snapshot contributes nothing.                                  *)
(***************************************************************************)
\* accounts the pre-snapshot records as the wallet's, with mint m
PreOwned(m) ==
    {a \in DOMAIN preBalances :
        preBalances[a].mint = m /\ preBalances[a].owner = primaryWallet}

\* the post record of a names another mint or owner than its pre record
Reassigned(a) ==
    /\ Has(preBalances, a) /\ Has(postBalances, a)
    /\ \/ postBalances[a].mint # preBalances[a].mint
       \/ postBalances[a].owner # preBalances[a].owner

\* a has a token record in the post-snapshot only
PostOnly(a) == Has(postBalances, a) /\ ~Has(preBalances, a)

C29_PreRecordKeysDelta ==
    (Returned /\ postSimAccounts = "array") =>
        \A m \in Mints \ {SOL_MINT} :
            /\ EmittedSum(m) = SumDeltas({a \in PreOwned(m) : Has(postBalances, a)})
            /\ PreOwned(m) = {} => EntryCount(m) = 0

\* an account of the wallet that the simulation hands to another owner and
\* mint is reported under its old mint, beside an account that is the wallet's
\* token account only afterwards
C29_Witness ==
    /\ Returned
    /\ postSimAccounts = "array"
    /\ \E a \in PreOwned(USDC_MINT) :
          /\ Reassigned(a)
          /\ postBalances[a].mint # USDC_MINT
          /\ postBalances[a].owner # primaryWallet
          /\ postBalances[a].amount - preBalances[a].amount # 0
          /\ EmittedSum(USDC_MINT) = postBalances[a].amount - preBalances[a].amount
    /\ \E b \in DOMAIN postBalances :
          PostOnly(b) /\ postBalances[b].owner = primaryWallet /\ postBalances[b].amount > 0

\* the versioned pipeline reports a reassigned account under its old mint
VersionedReassignedReported ==
    /\ Returned
    /\ pipeline = "versioned"
    /\ \E a \in PreOwned(USDC_MINT) :
          /\ Reassigned(a)
          /\ EmittedSum(USDC_MINT) = postBalances[a].amount - preBalances[a].amount
          /\ EmittedSum(USDC_MINT) # 0

(***************************************************************************)
(* C30: in the versioned pipeline, when the pre-state fetch of the primary *)
(* wallet's own account raises an error, the native delta is taken as 0,   *)
(* so the native entry, if there is one, is the wrapped-native token delta *)
(* alone.                                                                  *)
(***************************************************************************)
\* the pre-state fetch of the wallet failed and the request returned
WalletFetchFailed ==
    /\ pipeline = "versioned"
    /\ primaryWallet \in preFetchErrors
    /\ Returned
    /\ postSimAccounts = "array"

C30_WalletFetchErrorNoNativeDelta ==
    WalletFetchFailed =>
        /\ TargetWalletSolChange(primaryWallet, solPreBalances, solPostBalances) = 0
        /\ totalSolChange
             = FirstSolChange(VersionedRawBuying) + FirstSolChange(VersionedRawSelling)
        /\ EmittedSum(SOL_MINT) = MintTotal(SOL_MINT)
        /\ MintTotal(SOL_MINT) = 0 /\ OwnedAccounts(SOL_MINT) = {} => EntryCount(SOL_MINT) = 0

\* the wallet holds lamports after the simulation, its pre-state fetch failed,
\* and the native entry is the gain of its wrapped-native account
C30_Witness ==
    /\ WalletFetchFailed
    /\ solPostBalances[primaryWallet] > 0
    /\ MintTotal(SOL_MINT) > 0
    /\ EntryCount(SOL_MINT) = 1
    /\ EmittedSum(SOL_MINT) = MintTotal(SOL_MINT)

\* the same without a wrapped-native account: no native entry at all
NoNativeEntryAfterFailedFetch ==
    /\ WalletFetchFailed
    /\ solPostBalances[primaryWallet] > 0
    /\ OwnedAccounts(SOL_MINT) = {}
    /\ EntryCount(SOL_MINT) = 0

====
